---- MODULE Spec2Model ----
(***************************************************************************)
(* Model of iot_simulator.py: the TrafficSimulator scheduler loop          *)
(* (run_simulation), the batch dispatcher (send_data_for_all_locations),   *)
(* the per-location delivery worker with retry and backoff                 *)
(* (send_traffic_data_for_location), the lock-protected stats aggregate    *)
(* (update_stat / increment_stat), the /stop and /start endpoints, and the *)
(* sample generator (get_vehicle_count and the functions it calls), which  *)
(* has a specification of its own, SpecGen, over every hour and location.  *)
(*                                                                         *)
(* Every `with self.lock` block is two steps: the thread takes the lock    *)
(* (and, for an increment, reads the counter), then writes and releases.   *)
(* Variables marked "history" record what happened; the code has no such   *)
(* field and no action's guard reads them.                                 *)
(***************************************************************************)
EXTENDS Integers, Sequences, FiniteSets, TLC

\* ---- program constants -------------------------------------------------
MAX_RETRIES == 3
RETRY_BACKOFF == 2
INTERVAL == 30

\* ---- bounds of the model ----------------------------------------------
\* len(LOCATIONS) is 8 in the source; the model runs NumLocations of them.
NumLocations == 2
\* The scheduler loop is unbounded; the model starts at most MaxBatches.
MaxBatches == 1
\* The model takes at most MaxStarts requests to /start.
MaxStarts == 1
\* A random draw from a range takes DrawSteps + 1 evenly spaced values of it,
\* both ends included.
DrawSteps == 2

Locations == 1..NumLocations
NoOne == 0 - 1
Scheduler == 0

\* What session.post can produce: an HTTP response or a requests exception.
Outcomes ==
  [kind : {"response"}, code : {200, 201, 500}]
    \cup [kind : {"Timeout", "ConnectionError", "RequestException"}, code : {0}]

VARIABLES
  running,        \* self.running
  stats,          \* self.stats (the fields the core mutates)
  lock,           \* holder of self.lock, or NoOne
  spc,            \* position of the thread executing run_simulation
  i,              \* loop variable of the inter-batch wait
  nextLoc,        \* position in the loops over LOCATIONS / threads
  stmp,           \* scheduler's read of a counter inside increment_stat
  wpc,            \* position of each location's delivery thread
  retries,        \* local variable retries of each delivery thread
  wtmp,           \* worker's read of a counter inside increment_stat
  result,         \* return value of send_traffic_data_for_location
  attempts,       \* history: session.post calls made by this invocation
  sleeps,         \* history: durations passed to time.sleep by this invocation
  posted,         \* history: session.post calls made in total
  failedAttempts, \* history: session.post calls that did not succeed
  started,        \* history: calls of send_data_for_all_locations begun
  snap,           \* history: the counters when the current batch began
  batchAll201,    \* history: every response of the current batch was a 201
  startedAtStop,  \* history: started, when the stop flag was set
  asleepAtStop,   \* history: workers in time.sleep when the flag was set
  pendingAtStop,  \* history: the loop check had passed when the flag was set
  sleepLeft,      \* seconds each delivery thread's time.sleep has still to run
  snapshot,       \* the copy of self.stats that print_stats last took
  exitCause,      \* history: why run_simulation left its loop
  finalPrints,    \* history: print_stats calls made from the finally block
  startReplies,   \* history: the answers /start has given
  gen             \* the sample generator's inputs, draws and results

vars == <<running, stats, lock, spc, i, nextLoc, stmp, wpc, retries, wtmp,
          result, attempts, sleeps, posted, failedAttempts, started, snap,
          batchAll201, startedAtStop, asleepAtStop, pendingAtStop, sleepLeft,
          snapshot, exitCause, finalPrints, startReplies, gen>>

schedVars == <<spc, i, nextLoc, stmp>>
workerVars == <<wpc, retries, wtmp, result>>
workerHist == <<attempts, sleeps, posted, failedAttempts>>
batchHist == <<started, snap, batchAll201>>
stopHist == <<startedAtStop, asleepAtStop, pendingAtStop>>
exitHist == <<snapshot, exitCause, finalPrints>>
otherVars == <<startReplies, gen>>
simVars == <<running, stats, lock, schedVars, workerVars, workerHist,
             batchHist, stopHist, sleepLeft, exitHist, startReplies>>

RECURSIVE Pow(_, _)
Pow(b, e) == IF e = 0 THEN 1 ELSE b * Pow(b, e - 1)

\* ---- conditions and values of the code ---------------------------------

\* while retries < MAX_RETRIES and self.running
LoopCond_OffByOne(r, run) == r <= MAX_RETRIES /\ run
LoopCond_IgnoresStop(r, run) == r < MAX_RETRIES
LoopCond(r, run) == r < MAX_RETRIES /\ run

\* if retries < MAX_RETRIES and self.running (before the backoff sleep)
BackoffCond(r, run) == r < MAX_RETRIES /\ run

\* wait_time = RETRY_BACKOFF ** retries
WaitTime(r) == Pow(RETRY_BACKOFF, r)

\* time.sleep(seconds) goes on while more than one second is left; it does
\* not look at self.running.
SleepGoesOn(left, run) == left > 1

\* if response.status_code in (200, 201)
IsSuccess_Only200(o) == o.kind = "response" /\ o.code = 200
IsSuccess(o) == o.kind = "response" /\ o.code \in {200, 201}

\* with self.lock: a thread enters only when no thread holds the lock
LockFree_NoExclusion(l) == TRUE
LockFree(l) == l = NoOne

\* self.stats[key] += amount
IncrementValue_Assigns(v, amount) == amount
IncrementValue(v, amount) == v + amount

\* while self.running (run_simulation)
SchedCond_IgnoresStop(run) == TRUE
SchedCond(run) == run

\* thread.join() returns when the thread has terminated
JoinReady_NoWait(w) == TRUE
JoinReady(w) == wpc[w] = "done"

\* The sample generator at rest: the delivery pipeline does not read samples.
GenOff == [phase |-> "off"]

\* ---- initial state: after TrafficSimulator() and main() ----------------
InitSimulator ==
  /\ running = TRUE
  /\ stats = [successful_requests |-> 0, failed_requests |-> 0,
              total_requests |-> 0, last_success |-> "None",
              locations_sent |-> 0, status |-> "running", batch_count |-> 0]
  /\ lock = NoOne
  /\ spc = "loop"
  /\ i = 0
  /\ nextLoc = 1
  /\ stmp = 0
  /\ wpc = [w \in Locations |-> "idle"]
  /\ retries = [w \in Locations |-> 0]
  /\ wtmp = [w \in Locations |-> 0]
  /\ result = [w \in Locations |-> "none"]
  /\ attempts = [w \in Locations |-> 0]
  /\ sleeps = [w \in Locations |-> <<>>]
  /\ posted = 0
  /\ failedAttempts = 0
  /\ started = 0
  /\ snap = [successful_requests |-> 0, failed_requests |-> 0,
             total_requests |-> 0, batch_count |-> 0]
  /\ batchAll201 = TRUE
  /\ startedAtStop = 0
  /\ asleepAtStop = {}
  /\ pendingAtStop = FALSE
  /\ sleepLeft = [w \in Locations |-> 0]
  /\ snapshot = [successful_requests |-> 0, last_success |-> "None"]
  /\ exitCause = "none"
  /\ finalPrints = 0
  /\ startReplies = <<>>

Init == InitSimulator /\ gen = GenOff

\* ---- the /stop endpoint ------------------------------------------------
Stop ==
  /\ running' = FALSE
  /\ stats' = [stats EXCEPT !.status = "stopped_by_api"]
  /\ startedAtStop' = IF running THEN started ELSE startedAtStop
  /\ asleepAtStop' = IF running THEN {w \in Locations : wpc[w] = "sleep"}
                                ELSE asleepAtStop
  /\ pendingAtStop' = IF running THEN spc = "begin" ELSE pendingAtStop
  /\ UNCHANGED <<sleepLeft, exitHist, otherVars,
                 lock, schedVars, workerVars, workerHist, batchHist>>

\* ---- send_traffic_data_for_location, one thread per location -----------

\* The while condition: another attempt, or fall out to the failure exit.
WCheck(w) ==
  /\ wpc[w] = "check"
  /\ wpc' = [wpc EXCEPT ![w] =
       IF LoopCond(retries[w], running) THEN "total_acq" ELSE "fail_acq"]
  /\ UNCHANGED <<sleepLeft, exitHist, otherVars,
                 running, stats, lock, schedVars, retries, wtmp, result,
                 workerHist, batchHist, stopHist>>

\* increment_stat(key): take the lock and read the counter.
WIncAcquire(w, at, key, next) ==
  /\ wpc[w] = at
  /\ LockFree(lock)
  /\ lock' = w
  /\ wtmp' = [wtmp EXCEPT ![w] = stats[key]]
  /\ wpc' = [wpc EXCEPT ![w] = next]
  /\ UNCHANGED <<sleepLeft, exitHist, otherVars,
                 running, stats, schedVars, retries, result, workerHist,
                 batchHist, stopHist>>

WIncWrite_KeepsLock(w, at, key, next, res) ==
  /\ wpc[w] = at
  /\ stats' = [stats EXCEPT ![key] = IncrementValue(wtmp[w], 1)]
  /\ wtmp' = [wtmp EXCEPT ![w] = 0]
  /\ wpc' = [wpc EXCEPT ![w] = next]
  /\ result' = [result EXCEPT ![w] = res]
  /\ UNCHANGED <<sleepLeft, exitHist, otherVars, running, lock, schedVars,
                 retries, workerHist, batchHist, stopHist>>

\* increment_stat(key): store the incremented value and release the lock.
WIncWrite(w, at, key, next, res) ==
  /\ wpc[w] = at
  /\ stats' = [stats EXCEPT ![key] = IncrementValue(wtmp[w], 1)]
  /\ lock' = NoOne
  /\ wtmp' = [wtmp EXCEPT ![w] = 0]
  /\ wpc' = [wpc EXCEPT ![w] = next]
  /\ result' = [result EXCEPT ![w] = res]
  /\ UNCHANGED <<sleepLeft, exitHist, otherVars,
                 running, schedVars, retries, workerHist, batchHist, stopHist>>

\* self.increment_stat('total_requests')
WTotalAcquire(w) == WIncAcquire(w, "total_acq", "total_requests", "total_wr")
WTotalWrite(w) ==
  WIncWrite(w, "total_wr", "total_requests", "post", result[w])

\* self.session.post(...) and the branch on its outcome: a success goes on to
\* record it, anything else (status, Timeout, ConnectionError,
\* RequestException) adds one to retries.
WPost(w) ==
  /\ wpc[w] = "post"
  /\ \E o \in Outcomes :
       /\ IF IsSuccess(o)
            THEN /\ wpc' = [wpc EXCEPT ![w] = "succ_acq"]
                 /\ UNCHANGED <<retries, failedAttempts>>
            ELSE /\ wpc' = [wpc EXCEPT ![w] = "backoff"]
                 /\ retries' = [retries EXCEPT ![w] = @ + 1]
                 /\ failedAttempts' = failedAttempts + 1
       /\ batchAll201' = (batchAll201 /\ o.kind = "response" /\ o.code = 201)
  /\ attempts' = [attempts EXCEPT ![w] = @ + 1]
  /\ posted' = posted + 1
  /\ UNCHANGED <<sleepLeft, exitHist, otherVars,
                 running, stats, lock, schedVars, wtmp, result, sleeps,
                 started, snap, stopHist>>

\* self.increment_stat('successful_requests')
WSuccAcquire(w) ==
  WIncAcquire(w, "succ_acq", "successful_requests", "succ_wr")
WSuccWrite(w) ==
  WIncWrite(w, "succ_wr", "successful_requests", "last_acq", result[w])

\* self.update_stat('last_success', now): take the lock.
WLastAcquire(w) ==
  /\ wpc[w] = "last_acq"
  /\ LockFree(lock)
  /\ lock' = w
  /\ wpc' = [wpc EXCEPT ![w] = "last_wr"]
  /\ UNCHANGED <<sleepLeft, exitHist, otherVars,
                 running, stats, schedVars, retries, wtmp, result, workerHist,
                 batchHist, stopHist>>

WLastWrite_FallsThrough(w) ==
  /\ wpc[w] = "last_wr"
  /\ stats' = [stats EXCEPT !.last_success = "iso"]
  /\ lock' = NoOne
  /\ wpc' = [wpc EXCEPT ![w] = "fail_acq"]
  /\ UNCHANGED <<sleepLeft, exitHist, otherVars, running, schedVars, retries,
                 wtmp, result, workerHist, batchHist, stopHist>>

\* self.update_stat('last_success', now): store, release; then return True.
WLastWrite(w) ==
  /\ wpc[w] = "last_wr"
  /\ stats' = [stats EXCEPT !.last_success = "iso"]
  /\ lock' = NoOne
  /\ wpc' = [wpc EXCEPT ![w] = "done"]
  /\ result' = [result EXCEPT ![w] = "true"]
  /\ UNCHANGED <<sleepLeft, exitHist, otherVars,
                 running, schedVars, retries, wtmp, workerHist, batchHist,
                 stopHist>>

\* The check before the backoff: sleep RETRY_BACKOFF ** retries, or not.
WBackoff(w) ==
  /\ wpc[w] = "backoff"
  /\ IF BackoffCond(retries[w], running)
       THEN /\ wpc' = [wpc EXCEPT ![w] = "sleep"]
            /\ sleeps' = [sleeps EXCEPT ![w] = Append(@, WaitTime(retries[w]))]
            /\ sleepLeft' = [sleepLeft EXCEPT ![w] = WaitTime(retries[w])]
       ELSE /\ wpc' = [wpc EXCEPT ![w] = "check"]
            /\ UNCHANGED <<sleeps, sleepLeft>>
  /\ UNCHANGED <<exitHist, otherVars,
                 running, stats, lock, schedVars, retries, wtmp, result,
                 attempts, posted, failedAttempts, batchHist, stopHist>>

\* time.sleep(wait_time): one more second passes; nothing ends the sleep
\* before its time is up.
WSleepTick(w) ==
  /\ wpc[w] = "sleep"
  /\ SleepGoesOn(sleepLeft[w], running)
  /\ sleepLeft' = [sleepLeft EXCEPT ![w] = @ - 1]
  /\ UNCHANGED <<exitHist, otherVars, running, stats, lock, schedVars,
                 workerVars, workerHist, batchHist, stopHist>>

\* time.sleep(wait_time) returns after its last second.
WSleep(w) ==
  /\ wpc[w] = "sleep"
  /\ ~SleepGoesOn(sleepLeft[w], running)
  /\ wpc' = [wpc EXCEPT ![w] = "check"]
  /\ sleepLeft' = [sleepLeft EXCEPT ![w] = 0]
  /\ UNCHANGED <<exitHist, otherVars,
                 running, stats, lock, schedVars, retries, wtmp, result,
                 workerHist, batchHist, stopHist>>

\* self.increment_stat('failed_requests'); return False
WFailAcquire(w) == WIncAcquire(w, "fail_acq", "failed_requests", "fail_wr")
WFailWrite(w) == WIncWrite(w, "fail_wr", "failed_requests", "done", "false")

Worker(w) ==
  \/ WCheck(w)
  \/ WTotalAcquire(w)
  \/ WTotalWrite(w)
  \/ WPost(w)
  \/ WSuccAcquire(w)
  \/ WSuccWrite(w)
  \/ WLastAcquire(w)
  \/ WLastWrite(w)
  \/ WBackoff(w)
  \/ WSleepTick(w)
  \/ WSleep(w)
  \/ WFailAcquire(w)
  \/ WFailWrite(w)

\* ---- run_simulation and send_data_for_all_locations --------------------

\* while self.running: the model starts no batch beyond MaxBatches.
SLoop ==
  /\ spc = "loop"
  /\ IF SchedCond(running)
       THEN /\ stats.batch_count < MaxBatches
            /\ spc' = "begin"
       ELSE spc' = "finally"
  /\ exitCause' = IF SchedCond(running) THEN exitCause ELSE "stop"
  /\ UNCHANGED <<sleepLeft, snapshot, finalPrints, otherVars,
                 running, stats, lock, i, nextLoc, stmp, workerVars,
                 workerHist, batchHist, stopHist>>

\* send_data_for_all_locations is entered: current_time, threads = [].
SBegin ==
  /\ spc = "begin"
  /\ spc' = "spawn"
  /\ nextLoc' = 1
  /\ started' = started + 1
  /\ snap' = [successful_requests |-> stats.successful_requests,
              failed_requests |-> stats.failed_requests,
              total_requests |-> stats.total_requests,
              batch_count |-> stats.batch_count]
  /\ batchAll201' = TRUE
  /\ UNCHANGED <<sleepLeft, exitHist, otherVars,
                 running, stats, lock, i, stmp, workerVars, workerHist,
                 stopHist>>

\* One iteration of the loop over LOCATIONS: build the sample, start a thread.
SSpawn ==
  /\ spc = "spawn"
  /\ wpc' = [wpc EXCEPT ![nextLoc] = "check"]
  /\ retries' = [retries EXCEPT ![nextLoc] = 0]
  /\ result' = [result EXCEPT ![nextLoc] = "none"]
  /\ attempts' = [attempts EXCEPT ![nextLoc] = 0]
  /\ sleeps' = [sleeps EXCEPT ![nextLoc] = <<>>]
  /\ IF nextLoc = NumLocations
       THEN spc' = "join" /\ nextLoc' = 1
       ELSE spc' = "spawn" /\ nextLoc' = nextLoc + 1
  /\ UNCHANGED <<sleepLeft, exitHist, otherVars,
                 running, stats, lock, i, stmp, wtmp, posted, failedAttempts,
                 batchHist, stopHist>>

\* thread.start() raises (RuntimeError: can't start new thread): the exception
\* leaves send_data_for_all_locations and reaches run_simulation's
\* "except Exception"; the threads already started keep running.
SSpawnFault ==
  /\ spc = "spawn"
  /\ spc' = "except_acq"
  /\ exitCause' = "error"
  /\ UNCHANGED <<sleepLeft, snapshot, finalPrints, otherVars, running, stats,
                 lock, i, nextLoc, stmp, workerVars, workerHist, batchHist,
                 stopHist>>

\* except Exception: self.update_stat('status', 'error'): take the lock.
SExceptAcquire ==
  /\ spc = "except_acq"
  /\ LockFree(lock)
  /\ lock' = Scheduler
  /\ spc' = "except_wr"
  /\ UNCHANGED <<sleepLeft, exitHist, otherVars, running, stats, i, nextLoc,
                 stmp, workerVars, workerHist, batchHist, stopHist>>

SExceptWrite_KeepsStatus ==
  /\ spc = "except_wr"
  /\ lock' = NoOne
  /\ spc' = "finally"
  /\ UNCHANGED <<sleepLeft, exitHist, otherVars, running, stats, i, nextLoc,
                 stmp, workerVars, workerHist, batchHist, stopHist>>

\* self.update_stat('status', 'error'): store and release; on to finally.
SExceptWrite ==
  /\ spc = "except_wr"
  /\ stats' = [stats EXCEPT !.status = "error"]
  /\ lock' = NoOne
  /\ spc' = "finally"
  /\ UNCHANGED <<sleepLeft, exitHist, otherVars, running, i, nextLoc, stmp,
                 workerVars, workerHist, batchHist, stopHist>>

\* One iteration of "for thread in threads: thread.join()": returns once the
\* thread has terminated; a terminated thread's locals are gone.
SJoin ==
  /\ spc = "join"
  /\ JoinReady(nextLoc)
  /\ IF wpc[nextLoc] = "done"
       THEN /\ wpc' = [wpc EXCEPT ![nextLoc] = "joined"]
            /\ retries' = [retries EXCEPT ![nextLoc] = 0]
            /\ result' = [result EXCEPT ![nextLoc] = "none"]
            /\ attempts' = [attempts EXCEPT ![nextLoc] = 0]
            /\ sleeps' = [sleeps EXCEPT ![nextLoc] = <<>>]
       ELSE UNCHANGED <<wpc, retries, result, attempts, sleeps>>
  /\ IF nextLoc = NumLocations
       THEN spc' = "sent_acq" /\ nextLoc' = 1
       ELSE spc' = "join" /\ nextLoc' = nextLoc + 1
  /\ UNCHANGED <<sleepLeft, exitHist, otherVars,
                 running, stats, lock, i, stmp, wtmp, posted, failedAttempts,
                 batchHist, stopHist>>

\* self.update_stat('locations_sent', len(LOCATIONS))
SSentAcquire ==
  /\ spc = "sent_acq"
  /\ LockFree(lock)
  /\ lock' = Scheduler
  /\ spc' = "sent_wr"
  /\ UNCHANGED <<sleepLeft, exitHist, otherVars,
                 running, stats, i, nextLoc, stmp, workerVars, workerHist,
                 batchHist, stopHist>>

SSentWrite ==
  /\ spc = "sent_wr"
  /\ stats' = [stats EXCEPT !.locations_sent = NumLocations]
  /\ lock' = NoOne
  /\ spc' = "batch_acq"
  /\ UNCHANGED <<sleepLeft, exitHist, otherVars,
                 running, i, nextLoc, stmp, workerVars, workerHist, batchHist,
                 stopHist>>

\* self.increment_stat('batch_count')
SBatchAcquire ==
  /\ spc = "batch_acq"
  /\ LockFree(lock)
  /\ lock' = Scheduler
  /\ stmp' = stats.batch_count
  /\ spc' = "batch_wr"
  /\ UNCHANGED <<sleepLeft, exitHist, otherVars,
                 running, stats, i, nextLoc, workerVars, workerHist,
                 batchHist, stopHist>>

SBatchWrite_Forgotten ==
  /\ spc = "batch_wr"
  /\ lock' = NoOne
  /\ stmp' = 0
  /\ spc' = "stats_check"
  /\ UNCHANGED <<sleepLeft, exitHist, otherVars,
                 running, stats, i, nextLoc, workerVars, workerHist,
                 batchHist, stopHist>>

SBatchWrite ==
  /\ spc = "batch_wr"
  /\ stats' = [stats EXCEPT !.batch_count = IncrementValue(stmp, 1)]
  /\ lock' = NoOne
  /\ stmp' = 0
  /\ spc' = "stats_check"
  /\ UNCHANGED <<sleepLeft, exitHist, otherVars,
                 running, i, nextLoc, workerVars, workerHist, batchHist,
                 stopHist>>

\* if self.stats['batch_count'] % 5 == 0: self.print_stats()
SStatsCheck ==
  /\ spc = "stats_check"
  /\ spc' = IF stats.batch_count % 5 = 0 THEN "print_loop" ELSE "wait"
  /\ i' = 0
  /\ UNCHANGED <<sleepLeft, exitHist, otherVars,
                 running, stats, lock, nextLoc, stmp, workerVars, workerHist,
                 batchHist, stopHist>>

\* print_stats: copy the stats under the lock, log them.
SPrintStats ==
  /\ spc \in {"print_loop", "print_final"}
  /\ LockFree(lock)
  /\ spc' = IF spc = "print_loop" THEN "wait" ELSE "exit"
  /\ snapshot' = [successful_requests |-> stats.successful_requests,
                  last_success |-> stats.last_success]
  /\ finalPrints' = IF spc = "print_final" THEN finalPrints + 1 ELSE finalPrints
  /\ UNCHANGED <<sleepLeft, exitCause, otherVars,
                 running, stats, lock, i, nextLoc, stmp, workerVars,
                 workerHist, batchHist, stopHist>>

\* for i in range(INTERVAL): if not self.running: break; time.sleep(1)
SWait ==
  /\ spc = "wait"
  /\ IF i < INTERVAL /\ running
       THEN spc' = "wait" /\ i' = i + 1
       ELSE spc' = "loop" /\ i' = 0
  /\ UNCHANGED <<sleepLeft, exitHist, otherVars,
                 running, stats, lock, nextLoc, stmp, workerVars, workerHist,
                 batchHist, stopHist>>

\* finally: self.print_stats()
SFinally ==
  /\ spc = "finally"
  /\ spc' = "print_final"
  /\ UNCHANGED <<sleepLeft, exitHist, otherVars,
                 running, stats, lock, i, nextLoc, stmp, workerVars,
                 workerHist, batchHist, stopHist>>

Next ==
  \/ Stop
  \/ SLoop
  \/ SBegin
  \/ SSpawn
  \/ SSpawnFault
  \/ SExceptAcquire
  \/ SExceptWrite
  \/ SJoin
  \/ SSentAcquire
  \/ SSentWrite
  \/ SBatchAcquire
  \/ SBatchWrite
  \/ SStatsCheck
  \/ SPrintStats
  \/ SWait
  \/ SFinally
  \/ \E w \in Locations : Worker(w)

Spec == Init /\ [][Next]_vars

\* ---- the sample generator: get_vehicle_count and what it calls ----------

Max(a, b) == IF a >= b THEN a ELSE b

\* TRAFFIC_PATTERNS, in the order the dict is iterated
TRAFFIC_PATTERNS ==
  << [name |-> "early_morning", start |-> 5, end |-> 7, lo |-> 20, hi |-> 60],
     [name |-> "morning_peak", start |-> 7, end |-> 10, lo |-> 80, hi |-> 200],
     [name |-> "midday", start |-> 10, end |-> 13, lo |-> 40, hi |-> 120],
     [name |-> "afternoon_peak", start |-> 13, end |-> 16, lo |-> 70,
      hi |-> 180],
     [name |-> "evening", start |-> 16, end |-> 19, lo |-> 50, hi |-> 140],
     [name |-> "night", start |-> 19, end |-> 5, lo |-> 10, hi |-> 50] >>

NightRule == CHOOSE k \in DOMAIN TRAFFIC_PATTERNS :
               TRAFFIC_PATTERNS[k].name = "night"

\* SPECIAL_EVENTS: the multiplier ranges, in tenths
SPECIAL_EVENTS ==
  [accident |-> [lo |-> 20, hi |-> 30],
   road_work |-> [lo |-> 15, hi |-> 20],
   event |-> [lo |-> 18, hi |-> 25],
   rain |-> [lo |-> 13, hi |-> 18]]

EventNames == DOMAIN SPECIAL_EVENTS

\* location_factors, in tenths
LocationFactors ==
  [Ikeja |-> 12, Victoria_Island |-> 13, Lekki |-> 11, Apapa |-> 14,
   Marina |-> 9, Surulere |-> 10, Yaba |-> 11, Ikoyi |-> 8]

LocationNames == DOMAIN LocationFactors

\* The value a draw from lo..hi takes at step u of DrawSteps.
Sample(lo, hi, u) == lo + ((hi - lo) * u) \div DrawSteps

\* The test of one rule in get_current_traffic_pattern.
Matches_NoWrap(p, hour) == p.start <= hour /\ hour < p.end
Matches(p, hour) ==
  IF p.start < p.end
    THEN p.start <= hour /\ hour < p.end
    ELSE hour >= p.start \/ hour < p.end

\* The first rule of TRAFFIC_PATTERNS that matches, 0 when none does and the
\* night range is returned as the default.
MatchedRule(hour) ==
  LET hits == {k \in DOMAIN TRAFFIC_PATTERNS :
                 Matches(TRAFFIC_PATTERNS[k], hour)}
  IN  IF hits = {} THEN 0
      ELSE CHOOSE k \in hits : \A j \in hits : k <= j

\* get_current_traffic_pattern(hour)
GetCurrentTrafficPattern(hour) ==
  LET k == MatchedRule(hour)
      p == TRAFFIC_PATTERNS[IF k = 0 THEN NightRule ELSE k]
  IN  [rule |-> k, lo |-> p.lo, hi |-> p.hi]

\* int(vehicles * location_factor): the products of the configured values are
\* exact in binary floating point but for 180 * 1.4 = 251.99999999999997.
ScaleByFactor(v, tenths) ==
  (v * tenths) \div 10 - (IF v = 180 /\ tenths = 14 THEN 1 ELSE 0)

\* check_special_events: the product of the multipliers of the events that
\* trigger, as a fraction num / den.
EventMultiplier(triggered, u) ==
  LET RECURSIVE Prod(_)
      Prod(S) ==
        IF S = {} THEN [num |-> 1, den |-> 1]
        ELSE LET e == CHOOSE x \in S : TRUE
                 r == Prod(S \ {e})
             IN  [num |-> r.num * Sample(SPECIAL_EVENTS[e].lo,
                                         SPECIAL_EVENTS[e].hi, u),
                  den |-> r.den * 10]
  IN  Prod(triggered)

\* int(adjusted * event_multiplier)
ScaleByEvents(v, m) == (v * m.num) \div m.den

\* The range random.randint draws the trend from.
TrendRange(hour) ==
  IF 6 <= hour /\ hour < 9 THEN [lo |-> 5, hi |-> 20]
  ELSE IF 16 <= hour /\ hour < 19 THEN [lo |-> 5, hi |-> 15]
  ELSE [lo |-> 0 - 10, hi |-> 10]

\* The range of prediction_variation.
NoiseRange == [lo |-> 0 - 15, hi |-> 15]

\* generate_prediction, given its two draws
GeneratePrediction_SingleFloor(vehicles, trend, noise) ==
  Max(10, vehicles + trend + noise)
GeneratePrediction_NoFinalFloor(vehicles, trend, noise) ==
  Max(10, vehicles + trend) + noise
GeneratePrediction(vehicles, trend, noise) ==
  LET prediction == Max(10, vehicles + trend)
  IN  Max(10, prediction + noise)

\* One call of get_vehicle_count(hour, location) is about to be made.
GenInputs ==
  [phase : {"called"}, hour : 0..23, location : LocationNames,
   rule : {0}, lo : {0}, hi : {0}, events : {{}}, min : {0}, max : {0},
   vehicles : {0}, trend : {0}, noise : {0}, prediction : {0}]

InitGen == InitSimulator /\ gen \in GenInputs

\* min_vehicles, max_vehicles = self.get_current_traffic_pattern(hour), then
\* the location's factor.
GenPattern ==
  /\ gen.phase = "called"
  /\ LET r == GetCurrentTrafficPattern(gen.hour)
         f == LocationFactors[gen.location]
     IN  gen' = [gen EXCEPT !.phase = "adjusted", !.rule = r.rule,
                            !.lo = r.lo, !.hi = r.hi,
                            !.min = ScaleByFactor(r.lo, f),
                            !.max = ScaleByFactor(r.hi, f)]
  /\ UNCHANGED simVars

\* event_multiplier = self.check_special_events(): any set of events may
\* trigger; final_min and final_max.
GenEvents ==
  /\ gen.phase = "adjusted"
  /\ \E triggered \in SUBSET EventNames :
       \E u \in (IF triggered = {} THEN {0} ELSE 0..DrawSteps) :
         LET m == EventMultiplier(triggered, u)
         IN  gen' = [gen EXCEPT !.phase = "scaled", !.events = triggered,
                                !.min = ScaleByEvents(gen.min, m),
                                !.max = ScaleByEvents(gen.max, m)]
  /\ UNCHANGED simVars

\* current_vehicles = random.randint(final_min, final_max)
GenVehicles ==
  /\ gen.phase = "scaled"
  /\ gen.min <= gen.max
  /\ \E u \in 0..DrawSteps :
       gen' = [gen EXCEPT !.phase = "counted",
                          !.vehicles = Sample(gen.min, gen.max, u)]
  /\ UNCHANGED simVars

\* prediction = self.generate_prediction(current_vehicles, hour)
GenPrediction ==
  /\ gen.phase = "counted"
  /\ \E ut, un \in 0..DrawSteps :
       LET t == Sample(TrendRange(gen.hour).lo, TrendRange(gen.hour).hi, ut)
           n == Sample(NoiseRange.lo, NoiseRange.hi, un)
       IN  gen' = [gen EXCEPT !.phase = "returned", !.trend = t, !.noise = n,
                              !.prediction =
                                 GeneratePrediction(gen.vehicles, t, n)]
  /\ UNCHANGED simVars

NextGen ==
  \/ GenPattern
  \/ GenEvents
  \/ GenVehicles
  \/ GenPrediction

\* Calls of get_vehicle_count for every hour and location.
SpecGen == InitGen /\ [][NextGen]_vars

\* ---- the /start endpoint -----------------------------------------------

\* if not hasattr(app, 'simulator') or app.simulator.stats.get('status') ==
\* 'stopped': main() has set app.simulator before any request is served.
CanStart(status) == status = "stopped"

\* POST /start: a new TrafficSimulator replaces app.simulator and runs
\* run_simulation on a new thread, or the answer is already_running.
Start ==
  /\ Len(startReplies) < MaxStarts
  /\ IF CanStart(stats.status)
       THEN /\ startReplies' = Append(startReplies, "starting")
            /\ running' = TRUE
            /\ stats' = [successful_requests |-> 0, failed_requests |-> 0,
                         total_requests |-> 0, last_success |-> "None",
                         locations_sent |-> 0, status |-> "running",
                         batch_count |-> 0]
            /\ lock' = NoOne
            /\ spc' = "loop"
            /\ i' = 0
            /\ nextLoc' = 1
            /\ stmp' = 0
            /\ wpc' = [w \in Locations |-> "idle"]
            /\ retries' = [w \in Locations |-> 0]
            /\ wtmp' = [w \in Locations |-> 0]
            /\ result' = [w \in Locations |-> "none"]
            /\ sleepLeft' = [w \in Locations |-> 0]
            /\ attempts' = [w \in Locations |-> 0]
            /\ sleeps' = [w \in Locations |-> <<>>]
            /\ exitCause' = "none"
            /\ UNCHANGED <<posted, failedAttempts, batchHist, stopHist,
                           snapshot, finalPrints, gen>>
       ELSE /\ startReplies' = Append(startReplies, "already_running")
            /\ UNCHANGED <<running, stats, lock, schedVars, workerVars,
                           sleepLeft, workerHist, batchHist, stopHist,
                           exitHist, gen>>

NextLife ==
  \/ Next
  \/ Start

\* The simulator together with the requests to /start.
SpecLife == Init /\ [][NextLife]_vars

\* The steps run_simulation takes when thread.start() does not raise.
SchedulerStep ==
  \/ SLoop
  \/ SBegin
  \/ SSpawn
  \/ SExceptAcquire
  \/ SExceptWrite
  \/ SJoin
  \/ SSentAcquire
  \/ SSentWrite
  \/ SBatchAcquire
  \/ SBatchWrite
  \/ SStatsCheck
  \/ SPrintStats
  \/ SWait
  \/ SFinally

\* Fair scheduling: every thread that can take a step eventually takes one,
\* and every session.post returns (timeout=15).
FairSpec ==
  /\ Spec
  /\ WF_vars(SchedulerStep)
  /\ \A w \in Locations : WF_vars(Worker(w))

\* ---- notions the claims use --------------------------------------------

Terminated(w) == wpc[w] \in {"idle", "done", "joined"}
AtRest == \A w \in Locations : Terminated(w)

\* Workers whose attempt is counted in total_requests and not yet settled
\* as a success or as a failed attempt.
InFlight ==
  Cardinality({w \in Locations : wpc[w] \in {"post", "succ_acq", "succ_wr"}})

BatchDone == spc = "stats_check"

\* The worker makes a session.post call in this step.
Posts(w) == attempts'[w] = attempts[w] + 1

\* The worker's increment of total_requests lands in this step.
CountsRequest(w) == wpc[w] = "total_wr" /\ wpc'[w] = "post"

\* The scheduler starts the worker's thread in this step.
Launches(w) == wpc[w] \in {"idle", "done", "joined"} /\ wpc'[w] = "check"

\* ---- claims ------------------------------------------------------------

\* C1: a worker that returned failure while the stop flag was never set (so
\* every one of its attempts got a non-success outcome) made exactly
\* MAX_RETRIES attempts and slept RETRY_BACKOFF^1 .. RETRY_BACKOFF^(MAX_RETRIES-1)
\* between them, with no sleep after the last attempt.
C1_ExhaustedAfterMaxRetries ==
  \A w \in Locations :
    (wpc[w] = "done" /\ result[w] = "false" /\ running)
      => /\ attempts[w] = MAX_RETRIES
         /\ Len(sleeps[w]) = MAX_RETRIES - 1
         /\ \A k \in 1..(MAX_RETRIES - 1) : sleeps[w][k] = Pow(RETRY_BACKOFF, k)

C1_Witness ==
  \E w \in Locations :
    wpc[w] = "done" /\ result[w] = "false" /\ running /\ sleeps[w] = <<2, 4>>

\* C2: in every reachable state successful_requests + failed_requests is at
\* most total_requests.
C2_SettledWithinTotal ==
  stats.successful_requests + stats.failed_requests <= stats.total_requests

\* C3 (as claimed): whenever no delivery work is in flight, total_requests
\* equals successful_requests + failed_requests. Stated for a completed
\* batch with the stop flag not set, where it already fails.
C3_TotalIsSettledAtRest ==
  (BatchDone /\ AtRest /\ running)
    => stats.total_requests
         = stats.successful_requests + stats.failed_requests

\* C3 (amended): total_requests equals successful_requests plus the number of
\* attempts that ended without success plus the attempts in flight; at rest
\* it is successful_requests plus the failed attempts, not failed_requests.
C3_TotalIsSuccessesPlusFailedAttempts ==
  stats.total_requests = stats.successful_requests + failedAttempts + InFlight

C3_Witness ==
  /\ BatchDone
  /\ AtRest
  /\ stats.successful_requests > 0
  /\ stats.failed_requests > 0
  /\ stats.total_requests > stats.successful_requests + stats.failed_requests

\* C4: when send_data_for_all_locations has returned, locations_sent is the
\* number of locations and batch_count is one more than when it was called,
\* whatever the workers' outcomes were.
C4_BatchCounted ==
  BatchDone
    => /\ stats.locations_sent = NumLocations
       /\ stats.batch_count = snap.batch_count + 1

C4_Witness ==
  /\ BatchDone
  /\ stats.successful_requests > snap.successful_requests
  /\ stats.failed_requests > snap.failed_requests
  /\ stats.total_requests > snap.total_requests + NumLocations

C6_NoAttemptWhileStopped ==
  [][\A w \in Locations : (Posts(w) \/ CountsRequest(w)) => running]_vars

\* C7: a worker that was in its backoff sleep when the stop flag was set
\* makes no further network attempt and counts none: after the sleep it
\* reaches only the loop check and the failure exit, and returns False.
C7_Abandoning(w) ==
  \/ wpc[w] \in {"sleep", "check", "fail_acq", "fail_wr", "joined"}
  \/ wpc[w] = "done" /\ result[w] = "false"

C7_StopInBackoffAbandons ==
  [][\A w \in asleepAtStop :
       /\ ~Posts(w)
       /\ ~CountsRequest(w)
       /\ C7_Abandoning(w)']_vars

C7_Witness ==
  \E w \in asleepAtStop :
    wpc[w] = "done" /\ result[w] = "false" /\ attempts[w] < MAX_RETRIES

\* C8: a batch in which every attempt returned HTTP 201 and the stop flag was
\* not set leaves failed_requests unchanged and raises successful_requests
\* and total_requests by exactly the number of locations.
C8_AllCreatedBatch ==
  (BatchDone /\ batchAll201 /\ running)
    => /\ stats.failed_requests = snap.failed_requests
       /\ stats.successful_requests = snap.successful_requests + NumLocations
       /\ stats.total_requests = snap.total_requests + NumLocations

C8_Witness ==
  BatchDone /\ batchAll201 /\ running /\ posted = started * NumLocations

\* C9: total_requests never decreases and moves by exactly one; it equals
\* the number of network attempts made plus the attempts counted and about
\* to be made, so once the workers have finished it has grown by one per
\* attempt.
C9_TotalCountsAttempts ==
  stats.total_requests
    = posted + Cardinality({w \in Locations : wpc[w] = "post"})

C9_NoLostUpdates ==
  /\ []C9_TotalCountsAttempts
  /\ [][\/ stats'.total_requests = stats.total_requests
        \/ stats'.total_requests = stats.total_requests + 1]_vars

C9_Witness ==
  /\ AtRest
  /\ \A w \in Locations : wpc[w] = "done" /\ attempts[w] >= 2
  /\ stats.total_requests = posted

\* C10 (as claimed): no batch begins and no worker is launched in a state
\* where the stop flag is already set.
C10_NothingStartsWhileStopped ==
  [][(started' # started \/ \E w \in Locations : Launches(w)) => running]_vars

\* C10 (amended): after the stop flag is set the loop condition never passes
\* again: no batch begins, except the one whose loop check had already passed
\* when the flag was set, and that batch runs as usual.
C10_NoBatchAfterStopSeen ==
  ~running
    => \/ started = startedAtStop
       \/ pendingAtStop /\ started = startedAtStop + 1

C10_Witness ==
  /\ ~running
  /\ spc = "exit"
  /\ pendingAtStop
  /\ started = startedAtStop + 1

\* C11: when run_simulation has left its loop because it saw the stop flag
\* set, status is 'stopped' and the finally block has printed the stats once.
C11_StoppedAfterStop ==
  (spc = "exit" /\ exitCause = "stop")
    => stats.status = "stopped" /\ finalPrints = 1

\* C12: a fault in the scheduler loop is caught by its handler: the handler
\* sets status to 'error', the loop is left for good (the faulted batch is
\* never counted and no later batch begins) and the finally block still
\* prints the stats, once.
C12_Handled ==
  exitCause = "error"
    => /\ spc \in {"except_acq", "except_wr", "finally", "print_final", "exit"}
       /\ stats.batch_count = started - 1
       /\ spc = "exit" => finalPrints = 1

C12_FaultCaughtAtLoopLevel ==
  /\ []C12_Handled
  /\ [][(spc = "except_wr" /\ spc' # spc)
          => stats'.status = "error" /\ spc' = "finally"]_vars

C12_Witness ==
  /\ spc = "exit"
  /\ exitCause = "error"
  /\ stats.status = "error"
  /\ finalPrints = 1
  /\ \E w \in Locations : ~Terminated(w)

\* C16: once the stop flag is set, a worker in its backoff sleep is out of the
\* sleep when the next second has passed.
C16_BackoffSleepAbortable ==
  [][\A w \in Locations :
       (~running /\ wpc[w] = "sleep" /\ sleepLeft'[w] # sleepLeft[w])
         => wpc'[w] # "sleep"]_vars

\* C17: every worker invocation adds exactly one to exactly one of
\* successful_requests and failed_requests: while a batch is being joined the
\* two counters sum to one per worker of the earlier batches plus one per
\* worker of this batch that has passed its increment, and after k completed
\* batches they sum to N * k.
C17_Settled(w) == wpc[w] \in {"last_acq", "last_wr", "done", "joined"}

C17_OneTerminalIncrement ==
  LET sum == stats.successful_requests + stats.failed_requests
  IN  /\ spc = "join"
        => sum = NumLocations * (started - 1)
                   + Cardinality({w \in Locations : C17_Settled(w)})
      /\ BatchDone => sum = NumLocations * stats.batch_count

C17_Witness ==
  /\ BatchDone
  /\ ~running
  /\ stats.successful_requests > snap.successful_requests
  /\ stats.failed_requests > snap.failed_requests
  /\ stats.total_requests = snap.total_requests + 1

\* C18: under fair scheduling, with every network call returning, a batch
\* whose fan-out has begun is eventually counted as complete, whatever the
\* deliveries' outcomes (thread.start() failing is not a delivery outcome:
\* then the loop ends through its fault handler instead).
C18_BatchEventuallyCompletes ==
  (spc = "spawn") ~> (BatchDone \/ exitCause = "error")

\* One location has exhausted its retries and another of the same batch has
\* succeeded.
C18_Witness ==
  \E w, v \in Locations :
    /\ wpc[w] = "done" /\ result[w] = "false" /\ attempts[w] = MAX_RETRIES
    /\ wpc[v] = "done" /\ result[v] = "true"
    /\ running

\* C20: a snapshot print_stats took under the lock that shows a success also
\* shows when the last success was.
C20_SnapshotRecordsSuccessTime ==
  snapshot.successful_requests > 0 => snapshot.last_success # "None"

\* C19: a request to /start that arrives after /stop has set the stop flag
\* and run_simulation has left its loop starts a new scheduler run.
C19_RestartAfterStop ==
  [][(Len(startReplies') > Len(startReplies)
        /\ spc = "exit" /\ exitCause = "stop")
       => /\ startReplies'[Len(startReplies')] = "starting"
          /\ running'
          /\ spc' = "loop"]_vars

\* C13: for every hour 0..23 the range get_current_traffic_pattern returns
\* has min <= max, and the hour matches exactly one rule of TRAFFIC_PATTERNS,
\* the one whose range is returned, so the night default is never taken.
C13_OneRulePerHour ==
  gen.phase # "called"
    => /\ gen.lo <= gen.hi
       /\ gen.rule # 0
       /\ {k \in DOMAIN TRAFFIC_PATTERNS : Matches(TRAFFIC_PATTERNS[k], gen.hour)}
            = {gen.rule}
       /\ gen.lo = TRAFFIC_PATTERNS[gen.rule].lo
       /\ gen.hi = TRAFFIC_PATTERNS[gen.rule].hi

C13_Witness ==
  gen.phase = "adjusted" /\ gen.hour = 2 /\ gen.rule = NightRule

C14_DrawsInRange ==
  /\ gen.noise \in (0 - 15)..15
  /\ IF 6 <= gen.hour /\ gen.hour < 9 THEN gen.trend \in 5..20
     ELSE IF 16 <= gen.hour /\ gen.hour < 19 THEN gen.trend \in 5..15
     ELSE gen.trend \in (0 - 10)..10

\* C14 (as claimed): generate_prediction returns
\* max(10, vehicles + trend + noise), the floor applied to the final sum only.
C14_FloorOnFinalSumOnly ==
  gen.phase = "returned"
    => /\ C14_DrawsInRange
       /\ gen.prediction = Max(10, gen.vehicles + gen.trend + gen.noise)

\* C14 (amended): generate_prediction floors twice: vehicles + trend is raised
\* to 10 before the noise is added, and the sum with the noise is raised to 10
\* again; the draws' ranges are as claimed.
C14_FloorBeforeAndAfterNoise ==
  gen.phase = "returned"
    => /\ C14_DrawsInRange
       /\ gen.prediction =
            IF gen.vehicles + gen.trend < 10
              THEN Max(10, 10 + gen.noise)
              ELSE Max(10, gen.vehicles + gen.trend + gen.noise)

C14_Witness ==
  /\ gen.phase = "returned"
  /\ gen.vehicles + gen.trend < 10
  /\ gen.noise > 0
  /\ gen.prediction = 10 + gen.noise

\* C15: every sample has vehicles >= 0 and prediction >= 10, for every
\* location, hour, set of triggered events and draw.
C15_SampleFloors ==
  /\ gen.phase \in {"counted", "returned"} => gen.vehicles >= 0
  /\ gen.phase = "returned" => gen.prediction >= 10

C15_Witness ==
  /\ gen.phase = "returned"
  /\ gen.events # {}
  /\ gen.vehicles + gen.trend + gen.noise < 10
  /\ gen.prediction = 10

====
